---- MODULE Spec2Model ----
(***************************************************************************)
(* django-cloudflare: the purge coordinator (purge.py, PurgeService) and   *)
(* the boundary of the edge-cache client it calls (client.py).             *)
(*                                                                         *)
(* Threads are the callers of PurgeService.purge_urls and the              *)
(* threading.Timer threads armed by _schedule_background_purge.  Every     *)
(* step that can interleave with another thread is one action: taking the  *)
(* lock, the critical section, each client call and its return.            *)
(***************************************************************************)
EXTENDS Integers, Sequences, FiniteSets, TLC

\* ---------------------------------------------------------------- bounds
NCallers == 1      \* threads calling purge_urls
MaxReq == 3        \* purge_urls calls in one behaviour
NUrls == 2         \* distinct URLs
MaxLen == 3        \* longest URL list handed to purge_urls
MaxBatch == 2      \* largest PURGE_BATCH_SIZE tried
MaxDelay == 1      \* largest PURGE_DELAY_SECONDS tried
MaxTime == 2       \* the clock stops here
MaxEvery == 2      \* purge_everything calls in one behaviour
MaxEvents == 1     \* purge_model calls that reach purge_urls in one behaviour
MaxItems == 2      \* longest list handed to a client operation
MaxErrors == 2     \* longest error list in a provider response

\* "Cloudflare limits to 30 URLs per request"
HardLimit == 30

Urls == 1..NUrls
Callers == 1..NCallers
TimerIds == (NCallers + 1)..(NCallers + MaxReq)
Threads == Callers \cup TimerIds
NoThread == 0

\* The lists a caller may pass: every sequence over Urls up to MaxLen,
\* duplicates included.
UrlLists == UNION {[1..n -> Urls] : n \in 0..MaxLen}

\* The lists of one URL.
ShortLists == {<<u>> : u \in Urls}

\* The threads started by purge_everything(background=True).
WorkerIds == 1..MaxEvery

\* URL paths and SITE_URL values, as sequences of characters.
Paths == {<<"/">>, <<"/", "a", "/">>}
Sites == {<<>>, <<"s">>, <<"s", "/">>}

\* '<app_label>.<model_name>' of the instances, and the URL_DEPENDENCIES
\* settings tried: a dictionary from some of them to lists of paths.
Idents == {<<"blog", "post">>, <<"blog", "tag">>}
DepLists == {<<<<"/">>>>, <<<<"/", "a", "/">>, <<"/">>>>}
DepMaps == UNION {[K -> DepLists] : K \in SUBSET Idents}

\* The model classes that may be registered, the custom URL functions
\* (None for none) and the register calls for one model without an
\* unregister between them.
Models == {"Post", "Tag"}
UrlFuncs == {"None", "f", "g"}
MaxRegs == 2

\* The threads that ask for the module-level instances, and the calls each
\* makes.
NGetters == 2
MaxGets == 2
Getters == 1..NGetters
GetFuncs == {"get_purge_service", "get_client"}

\* The settings the client and purge_model read.
Cfgs == [enabled : BOOLEAN, site : Sites, deps : DepMaps]

\* settings.DEFAULTS: ENABLED True, SITE_URL "", URL_DEPENDENCIES {}
DefaultCfg == [enabled |-> TRUE, site |-> <<>>, deps |-> <<>>]

\* The lists handed to a client operation: every short one, and one of one
\* item more than the provider takes.
ItemLists ==
    UNION {[1..n -> Urls] : n \in 0..MaxItems} \cup {[k \in 1..(HardLimit + 1) |-> 1]}

Range(s) == {s[k] : k \in 1..Len(s)}
Min(a, b) == IF a < b THEN a ELSE b

VARIABLES
    pending,    \* PurgeService._pending_urls
    lock,       \* PurgeService._lock: NoThread or the thread holding it
    timerRef,   \* PurgeService._timer: NoThread (None) or a timer
    th,         \* every thread's position and locals
    nTimers,    \* threading.Timer objects created so far
    nSync,      \* synchronous requests made so far
    now,        \* the clock
    delay,      \* settings: PURGE_DELAY_SECONDS
    batchSize,  \* settings: PURGE_BATCH_SIZE
    winUrls,    \* history: URLs of the background requests merged since the last swap
    winOrder,   \* history: the same URLs, each once, in the order they were first added
    winFirst,   \* history: time of the first such request that carried a URL, or -1
    winLast,    \* history: time of the last such request that carried a URL, or -1
    winCount,   \* history: how many background requests were merged since the last swap
    winOverlap, \* history: one of them named a URL an earlier one of the window had named
    nDrains,    \* history: dispatches started by timer callbacks so far
    dropped,    \* history: URLs a failed drain left unsent, not requested again since
    anyUrl,     \* history: some background request so far carried a URL
    burst,      \* history: every background request so far found the previous timer still waiting
    workers,    \* the threads of purge_everything(background=True)
    nEvery,     \* purge_everything calls made so far
    cl,         \* the client operation called directly, and what came of it
    mdl,        \* the purge_model call each caller is in, if any
    cfg,        \* settings: ENABLED, SITE_URL, URL_DEPENDENCIES
    sig,        \* signals.py: the registry, the connected receivers, the last event
    cmd,        \* the management command run last, and what came of it
    glob        \* the module globals _service and _client, and the threads asking for them

\* What the purge_urls paths leave alone.
ext == <<workers, nEvery, cl, mdl, cfg>>

\* The signal handlers' registry and the command line.
edge == <<sig, cmd, glob>>

vars == <<pending, lock, timerRef, th, nTimers, nSync, now, delay, batchSize,
          winUrls, winOrder, winFirst, winLast, winCount, winOverlap, nDrains, dropped, anyUrl, burst, ext, edge>>

\* No signal sent yet, or none since the registry changed.
NoEvent == [kind |-> "none"]

\* What is known of a model class's registration: the last call for it
\* (none, register or unregister), the configuration that call gave, and how
\* many register calls came one after another.
Unknown == [op |-> "none", func |-> "None", incl |-> TRUE, n |-> 0]

\* No command run yet.
NoCommand == [name |-> "none"]

\* A thread outside get_purge_service and get_client.  Inside: the function
\* it called, whether it is in the get_client() of PurgeService.__init__,
\* the client that call gave it, and the object the outer call returned.
Outside == [pc |-> "idle", fn |-> "none", inner |-> FALSE, cli |-> 0, got |-> 0, n |-> 0]

\* _service = None and _client = None (0 stands for None, an instance is
\* written as its number in the order of creation), no instance created,
\* nothing returned.
NoGlobals ==
    [service |-> 0, client |-> 0, nService |-> 0, nClient |-> 0, holds |-> <<>>,
     returned |-> [fn \in GetFuncs |-> {}], gt |-> [t \in Getters |-> Outside]]

\* No client operation called yet.  Once one was: the operation, the list it
\* was given, the provider's answer, the requests made and the outcome.
NoCall == [op |-> "none"]

\* Not inside purge_model.
NoModel == [pc |-> "none"]

\* A thread's locals: pc, the resolved background flag, the URL list it works
\* on, the loop index of _do_purge_urls, the batches it has sent, the client
\* results collected, what it returned and the exception that left it; for a
\* timer also the time it was armed and, as history while it drains, the
\* window it swapped out: its URLs, the time of its last request, the number
\* of its requests and whether two of them overlapped.
\* A timer that is through keeps only its pc.
\* Callers: idle -> locked -> done (background), or
\* idle -> loop <-> incall -> (raising ->) done (synchronous), then idle again.
\* Timers: unborn -> waiting -> cancelled, or
\* waiting -> fired -> locked -> loop <-> incall -> (raising ->) done.
Fresh(pc) ==
    [pc |-> pc, bg |-> FALSE, urls |-> <<>>, i |-> 0, sent |-> <<>>,
     results |-> <<>>, ret |-> "none", armedAt |-> 0,
     want |-> {}, first |-> <<>>, arg |-> <<>>, last |-> -1, cnt |-> 0, ovl |-> FALSE, exc |-> "none"]

Init ==
    /\ pending = {}
    /\ lock = NoThread
    /\ timerRef = NoThread
    /\ th = [t \in Threads |-> IF t \in Callers THEN Fresh("idle") ELSE Fresh("unborn")]
    /\ nTimers = 0
    /\ nSync = 0
    /\ now = 0
    /\ delay \in 0..MaxDelay
    /\ batchSize \in 1..MaxBatch
    /\ winUrls = {}
    /\ winOrder = <<>>
    /\ winFirst = -1
    /\ winLast = -1
    /\ winCount = 0
    /\ winOverlap = FALSE
    /\ nDrains = 0
    /\ dropped = {}
    /\ anyUrl = FALSE
    /\ burst = TRUE
    /\ workers = [w \in WorkerIds |-> "unborn"]
    /\ nEvery = 0
    /\ cl = NoCall
    /\ mdl = [c \in Callers |-> NoModel]
    /\ cfg \in Cfgs
    /\ sig = [models |-> {}, funcs |-> <<>>, save |-> <<>>, delete |-> <<>>,
              last |-> [m \in Models |-> Unknown], ev |-> NoEvent]
    /\ cmd = NoCommand
    /\ glob = NoGlobals

\* ------------------------------------------------------------- the client

\* What one HTTP exchange can come to.
Responses == {"ok", "success_false", "http_error", "url_error", "bad_json"}

\* CloudflareClient._make_request: the JSON body is decoded inside the try,
\* but only HTTPError and URLError are caught there.
MakeRequest(resp) ==
    CASE resp = "ok" -> "ok"
      [] resp = "success_false" -> "CloudflareAPIError"
      [] resp = "http_error" -> "CloudflareAPIError"
      [] resp = "url_error" -> "CloudflareAPIError"
      [] resp = "bad_json" -> "JSONDecodeError"

\* CloudflareClient.purge_urls with the integration enabled.
ClientPurgeUrls(urls, resp) ==
    IF urls = <<>> THEN "ok" ELSE MakeRequest(resp)

\* The provider's answers in full: the kind of the exchange, whether the body
\* it carries is JSON, and the "errors" list of a failure body.
SubErrors == {[code |-> 1001, message |-> "m1"], [code |-> 1002, message |-> "m2"]}
ErrLists == UNION {[1..n -> SubErrors] : n \in 0..MaxErrors}
Replies ==
    {[kind |-> k, json |-> TRUE, errors |-> <<>>] : k \in {"ok", "url_error"}}
    \cup {[kind |-> k, json |-> TRUE, errors |-> e] :
              k \in {"success_false", "http_error"}, e \in ErrLists}
    \cup {[kind |-> k, json |-> FALSE, errors |-> <<>>] : k \in {"http_error", "bad_json"}}

\* The answer of the given kind with nothing more in it.
Reply(kind) == [kind |-> kind, json |-> TRUE, errors |-> <<>>]

\* A synthetic success outcome: {"success": True, "result": {"id": id}}
Sentinel(id) == [exc |-> "none", id |-> id, errors |-> <<>>, message |-> <<>>]

\* [err.get("message", str(err)) for err in errors], joined into the message
Messages(errors) == [k \in 1..Len(errors) |-> errors[k].message]

\* CloudflareAPIError(message, errors): self.errors = errors or []
ApiError(message, errors) ==
    [exc |-> "CloudflareAPIError", id |-> "none", errors |-> errors, message |-> message]

\* _make_request in full: what it returns or raises for an answer.  An HTTP
\* error whose body is not JSON is raised with the body as message and no
\* error list; a transport failure with its reason and no error list.
RequestOutcome(reply) ==
    CASE MakeRequest(reply.kind) = "ok" -> Sentinel("provider")
      [] MakeRequest(reply.kind) = "JSONDecodeError" ->
            [exc |-> "JSONDecodeError", id |-> "none", errors |-> <<>>, message |-> <<>>]
      [] reply.kind = "http_error" /\ ~reply.json -> ApiError(<<"body">>, <<>>)
      [] reply.kind = "url_error" -> ApiError(<<"reason">>, <<>>)
      [] OTHER -> ApiError(Messages(reply.errors), reply.errors)

\* The operations of the client, and those that take a list.
Ops == {"purge_everything", "purge_urls", "purge_tags", "purge_prefixes", "verify_token"}
ListOps == {"purge_urls", "purge_tags", "purge_prefixes"}

\* The request an operation sends: method, endpoint and JSON body.
Request(op, items) ==
    CASE op = "verify_token" ->
            [method |-> "GET", endpoint |-> "/user/tokens/verify", key |-> "none", items |-> <<>>]
      [] op = "purge_everything" ->
            [method |-> "POST", endpoint |-> "/purge_cache", key |-> "purge_everything",
             items |-> <<>>]
      [] op = "purge_urls" ->
            [method |-> "POST", endpoint |-> "/purge_cache", key |-> "files", items |-> items]
      [] op = "purge_tags" ->
            [method |-> "POST", endpoint |-> "/purge_cache", key |-> "tags", items |-> items]
      [] op = "purge_prefixes" ->
            [method |-> "POST", endpoint |-> "/purge_cache", key |-> "prefixes", items |-> items]

\* Faulty variant: the empty list is sent to the provider like any other.
NoEmptyGuard(op, items) == FALSE

\* if not urls / if not tags / if not prefixes
EmptyGuard(op, items) == op \in ListOps /\ items = <<>>

\* Which operations look at ENABLED: every purge operation does,
\* verify_token does not.
ChecksEnabled(op) == op # "verify_token"

\* An operation of the client: the requests it makes and what it returns or
\* raises.
ClientCall(op, enabled, items, reply) ==
    IF ChecksEnabled(op) /\ ~enabled
    THEN [requests |-> <<>>, out |-> Sentinel("disabled")]
    ELSE IF EmptyGuard(op, items)
    THEN [requests |-> <<>>, out |-> Sentinel("empty")]
    ELSE [requests |-> <<Request(op, items)>>, out |-> RequestOutcome(reply)]

\* ------------------------------------------------------ PurgeService pieces

\* purge_urls: background=None falls back to the BACKGROUND_PURGE setting.
Resolve(background, setting) ==
    IF background = "None" THEN setting ELSE background = "True"

\* Faulty variant: the request's URLs replace the pending set.
OverwritePending(p, urls) == Range(urls)

\* self._pending_urls.update(urls)
MergePending(p, urls) == p \cup Range(urls)

\* Faulty variant: the previous timer is left running.
NoCancel(T, r) == T

\* if self._timer is not None: self._timer.cancel()
\* Timer.cancel() sets the timer's finished event; a timer that is still
\* waiting then ends without calling its function, one that has already
\* passed the check of that event runs its function all the same.
CancelTimer(T, r) ==
    IF r # NoThread /\ T[r].pc = "waiting"
    THEN [T EXCEPT ![r] = Fresh("cancelled")]
    ELSE T

\* Faulty variant: the list leaves one of the pending URLs out.
AllButOne(S) ==
    IF S = {} THEN {<<>>}
    ELSE {s \in [1..(Cardinality(S) - 1) -> S] :
             \A a, b \in 1..(Cardinality(S) - 1) : s[a] = s[b] => a = b}

\* list(self._pending_urls): a set's iteration order is not specified, so
\* the list is any arrangement of the set's elements, each once.
ListsOf(S) ==
    {s \in [1..Cardinality(S) -> S] : \A a, b \in 1..Cardinality(S) : s[a] = s[b] => a = b}

\* Faulty variant: the drained URLs stay in the pending set.
NotCleared == pending

\* self._pending_urls.clear()
ClearedPending == {}

\* Faulty variant: the lock is kept across the dispatch.
LockKept == lock

\* the lock once the with-block of _execute_background_purge is left
LockAfterSwap == NoThread

\* Faulty variant: the slice is one element too long.
BatchOffByOne(urls, i, B) == SubSeq(urls, i + 1, Min(i + B + 1, Len(urls)))

\* urls[i : i + batch_size]
Batch(urls, i, B) == SubSeq(urls, i + 1, Min(i + B, Len(urls)))

\* _do_purge_urls is entered: range(0, len(urls), batch_size) is empty for an
\* empty list and the aggregate is returned at once.
EnterDispatch(r, urls) ==
    IF urls = <<>>
    THEN [r EXCEPT !.pc = "done", !.ret = "success"]
    ELSE [r EXCEPT !.pc = "loop", !.urls = urls]

\* Faulty variant: each result replaces the ones collected before.
KeepLastResult(r, B) ==
    IF r.i + B >= Len(r.urls)
    THEN [r EXCEPT !.pc = "done", !.results = <<Len(r.sent)>>, !.i = @ + B,
                   !.ret = "success"]
    ELSE [r EXCEPT !.pc = "loop", !.results = <<Len(r.sent)>>, !.i = @ + B]

\* _do_purge_urls when client.purge_urls returned: the result is appended and
\* the loop goes on with the next slice, or ends with the aggregate
\* {"success": True, "results": results}.  A result is written as the number
\* of the call it answers.
OnClientResult(r, B) ==
    IF r.i + B >= Len(r.urls)
    THEN [r EXCEPT !.pc = "done", !.results = Append(@, Len(r.sent)), !.i = @ + B,
                   !.ret = "success"]
    ELSE [r EXCEPT !.pc = "loop", !.results = Append(@, Len(r.sent)), !.i = @ + B]

\* Faulty variant: the failed slice is sent again.
RetryOnError(r, e) == [r EXCEPT !.pc = "loop"]

\* Faulty variant: the failure is noted and the loop goes on with the next slice.
ContinueOnError(r, e) ==
    [r EXCEPT !.exc = e, !.i = @ + Len(r.sent[Len(r.sent)]),
              !.pc = IF r.i + Len(r.sent[Len(r.sent)]) >= Len(r.urls) THEN "done" ELSE "loop"]

\* _do_purge_urls when client.purge_urls raised: a CloudflareAPIError is
\* logged and re-raised, any other exception passes through; either way the
\* loop is left.
OnClientError(r, e) == [r EXCEPT !.pc = "raising", !.exc = e]

\* _execute_background_purge: except CloudflareAPIError
Caught(e) == e = "CloudflareAPIError"

InBackgroundCall == Cardinality({c \in Callers : th[c].pc = "locked"})

\* self._pending_urls.update(urls), as the order of arrival sees it: the URLs
\* of the list that were not there yet come after the ones that were, in the
\* order of the list.
RECURSIVE FirstAdded(_, _)
FirstAdded(order, urls) ==
    IF urls = <<>> THEN order
    ELSE FirstAdded(IF urls[1] \in Range(order) THEN order ELSE Append(order, urls[1]),
                    Tail(urls))

\* The URLs of a dispatch that lie behind the slice now with the client: the
\* ones the loop does not come to when this call raises.
Unsent(r, B) == {r.urls[k] : k \in (r.i + B + 1)..Len(r.urls)}

\* ------------------------------------------------------------- actions

\* Faulty variant: a synchronous call takes the pending URLs along, empties
\* the pending set and cancels their timer.
PurgeUrlsFlushing(c, urls, background, setting) ==
    /\ th[c].pc = "idle"
    /\ nTimers + nSync + InBackgroundCall < MaxReq
    /\ IF Resolve(background, setting)
       THEN /\ lock = NoThread
            /\ lock' = c
            /\ th' = [th EXCEPT ![c] = [Fresh("locked") EXCEPT !.bg = TRUE, !.urls = urls]]
            /\ UNCHANGED <<nSync, pending, timerRef>>
       ELSE /\ lock = NoThread
            /\ \E s \in ListsOf(pending) :
                  th' = [CancelTimer(th, timerRef) EXCEPT
                           ![c] = EnterDispatch([Fresh("idle") EXCEPT !.arg = urls], urls \o s)]
            /\ pending' = {}
            /\ timerRef' = NoThread
            /\ nSync' = nSync + 1
            /\ UNCHANGED lock
    /\ UNCHANGED <<nTimers, now, delay, batchSize,
                   winUrls, winOrder, winFirst, winLast, winCount, winOverlap, nDrains, dropped, anyUrl, burst, ext, edge>>

\* PurgeService.purge_urls(urls, background): the background branch enters
\* _schedule_background_purge and takes the lock, the synchronous branch
\* enters _do_purge_urls.  The history field arg keeps the list the
\* synchronous call was given.
PurgeUrls(c, urls, background, setting) ==
    /\ th[c].pc = "idle"
    /\ nTimers + nSync + InBackgroundCall < MaxReq
    /\ IF Resolve(background, setting)
       THEN /\ lock = NoThread
            /\ lock' = c
            /\ th' = [th EXCEPT ![c] = [Fresh("locked") EXCEPT !.bg = TRUE, !.urls = urls]]
            /\ UNCHANGED nSync
       ELSE /\ th' = [th EXCEPT ![c] = EnterDispatch([Fresh("idle") EXCEPT !.arg = urls], urls)]
            /\ nSync' = nSync + 1
            /\ UNCHANGED lock
    /\ UNCHANGED <<pending, timerRef, nTimers, now, delay, batchSize,
                   winUrls, winOrder, winFirst, winLast, winCount, winOverlap, nDrains, dropped, anyUrl, burst, ext, edge>>

\* _schedule_background_purge: the critical section, the release of the
\* lock and the return of None.
Schedule(c) ==
    /\ c \in Callers
    /\ th[c].pc = "locked"
    /\ lock = c
    /\ LET new == NCallers + nTimers + 1
           prev == NCallers + nTimers
           T == CancelTimer(th, timerRef)
       IN /\ pending' = MergePending(pending, th[c].urls)
          /\ th' = [T EXCEPT
                      ![new] = [Fresh("waiting") EXCEPT !.armedAt = now],
                      ![c] = [Fresh("done") EXCEPT !.bg = TRUE, !.ret = "None"]]
          /\ timerRef' = new
          /\ burst' = (burst /\ (nTimers = 0 \/ th[prev].pc = "waiting"))
    /\ nTimers' = nTimers + 1
    /\ lock' = NoThread
    /\ winUrls' = winUrls \cup Range(th[c].urls)
    /\ winOrder' = FirstAdded(winOrder, th[c].urls)
    /\ winFirst' = IF winFirst = -1 /\ th[c].urls # <<>> THEN now ELSE winFirst
    /\ dropped' = dropped \ Range(th[c].urls)
    /\ winLast' = IF th[c].urls # <<>> THEN now ELSE winLast
    /\ winCount' = winCount + 1
    /\ winOverlap' = (winOverlap \/ winUrls \cap Range(th[c].urls) # {})
    /\ anyUrl' = (anyUrl \/ th[c].urls # <<>>)
    /\ UNCHANGED <<nSync, now, delay, batchSize, nDrains, ext, edge>>

\* threading.Timer.run: the wait is over and the finished event is not set.
TimerFire(t) ==
    /\ th[t].pc = "waiting"
    /\ now >= th[t].armedAt + delay
    /\ th' = [th EXCEPT ![t].pc = "fired"]
    /\ UNCHANGED <<pending, lock, timerRef, nTimers, nSync, now, delay, batchSize,
                   winUrls, winOrder, winFirst, winLast, winCount, winOverlap, nDrains, dropped, anyUrl, burst, ext, edge>>

\* _execute_background_purge: with self._lock
TimerAcquire(t) ==
    /\ th[t].pc = "fired"
    /\ lock = NoThread
    /\ lock' = t
    /\ th' = [th EXCEPT ![t].pc = "locked"]
    /\ UNCHANGED <<pending, timerRef, nTimers, nSync, now, delay, batchSize,
                   winUrls, winOrder, winFirst, winLast, winCount, winOverlap, nDrains, dropped, anyUrl, burst, ext, edge>>

\* _execute_background_purge: the swap under the lock, then "if urls".
TimerSwap(t) ==
    /\ t \in TimerIds
    /\ th[t].pc = "locked"
    /\ lock = t
    /\ \E s \in ListsOf(pending) :
          /\ th' = [th EXCEPT ![t] =
                      IF s # <<>>
                      THEN [Fresh("loop") EXCEPT !.urls = s, !.want = winUrls, !.first = winOrder,
                                                 !.last = winLast, !.cnt = winCount,
                                                 !.ovl = winOverlap]
                      ELSE Fresh("done")]
          /\ nDrains' = IF s # <<>> THEN nDrains + 1 ELSE nDrains
    /\ pending' = ClearedPending
    /\ timerRef' = NoThread
    /\ lock' = LockAfterSwap
    /\ winUrls' = {}
    /\ winOrder' = <<>>
    /\ winFirst' = -1
    /\ winLast' = -1
    /\ winCount' = 0
    /\ winOverlap' = FALSE
    /\ UNCHANGED <<nTimers, nSync, now, delay, batchSize, dropped, anyUrl, burst, ext, edge>>

\* _do_purge_urls: the next slice is handed to client.purge_urls.
CallStart(t) ==
    /\ th[t].pc = "loop"
    /\ th' = [th EXCEPT ![t] = [@ EXCEPT
                 !.pc = "incall",
                 !.sent = Append(@, Batch(th[t].urls, th[t].i, batchSize))]]
    /\ UNCHANGED <<pending, lock, timerRef, nTimers, nSync, now, delay, batchSize,
                   winUrls, winOrder, winFirst, winLast, winCount, winOverlap, nDrains, dropped, anyUrl, burst, ext, edge>>

\* _do_purge_urls: client.purge_urls returns or raises.  In a timer,
\* _execute_background_purge then logs the completion, or catches the
\* CloudflareAPIError and logs it, and ends; an exception it does not catch
\* goes on.
CallReturn(t, resp) ==
    /\ th[t].pc = "incall"
    /\ LET out == ClientPurgeUrls(th[t].sent[Len(th[t].sent)], resp)
           r == IF out = "ok" THEN OnClientResult(th[t], batchSize)
                              ELSE OnClientError(th[t], out)
       IN th' = [th EXCEPT ![t] =
                   IF t \in TimerIds /\ (r.pc = "done" \/ Caught(r.exc))
                   THEN Fresh("done")
                   ELSE r]
          /\ dropped' = IF t \in TimerIds /\ out # "ok"
                        THEN dropped \cup Unsent(th[t], batchSize)
                        ELSE dropped
    /\ UNCHANGED <<pending, lock, timerRef, nTimers, nSync, now, delay, batchSize,
                   winUrls, winOrder, winFirst, winLast, winCount, winOverlap, nDrains, anyUrl, burst, ext, edge>>

\* The exception goes up: purge_urls lets it reach its caller; in a timer it
\* leaves _execute_background_purge and ends the timer's thread.
Unwind(t) ==
    /\ th[t].pc = "raising"
    /\ th' = [th EXCEPT ![t] =
                 IF t \in TimerIds THEN Fresh("done") ELSE [@ EXCEPT !.pc = "done"]]
    /\ UNCHANGED <<pending, lock, timerRef, nTimers, nSync, now, delay, batchSize,
                   winUrls, winOrder, winFirst, winLast, winCount, winOverlap, nDrains, dropped, anyUrl, burst, ext, edge>>

\* The caller has its answer and may call again.
Return(c) ==
    /\ c \in Callers
    /\ th[c].pc = "done"
    /\ th' = [th EXCEPT ![c] = Fresh("idle")]
    /\ UNCHANGED <<pending, lock, timerRef, nTimers, nSync, now, delay, batchSize,
                   winUrls, winOrder, winFirst, winLast, winCount, winOverlap, nDrains, dropped, anyUrl, burst, ext, edge>>

\* Time passes.
Tick ==
    /\ now < MaxTime
    /\ now' = now + 1
    /\ UNCHANGED <<pending, lock, timerRef, th, nTimers, nSync, delay, batchSize,
                   winUrls, winOrder, winFirst, winLast, winCount, winOverlap, nDrains, dropped, anyUrl, burst, ext, edge>>

\* The state of the coordinator.
core == <<pending, lock, timerRef, th, nTimers, nSync, now, delay, batchSize,
          winUrls, winOrder, winFirst, winLast, winCount, winOverlap, nDrains, dropped, anyUrl, burst>>

\* A client operation called directly, as the management commands call
\* verify_token, with the provider's answer to the request it may make.
ClientOp(op, items, reply) ==
    /\ op \in ListOps \/ items = <<>>
    /\ cl' = [op |-> op, items |-> items, reply |-> reply,
              requests |-> ClientCall(op, cfg.enabled, items, reply).requests,
              out |-> ClientCall(op, cfg.enabled, items, reply).out]
    /\ UNCHANGED <<core, workers, nEvery, mdl, cfg, edge>>

\* str.rstrip("/")
RECURSIVE RStrip(_)
RStrip(s) ==
    IF s # <<>> /\ s[Len(s)] = "/" THEN RStrip(SubSeq(s, 1, Len(s) - 1)) ELSE s

\* Faulty variant: SITE_URL is put before the path as it is.
KeepSlash(site, path) == site \o path

\* _build_full_url
BuildFullUrl(site, path) ==
    IF RStrip(site) = <<>> THEN path ELSE RStrip(site) \o path

\* _get_url_dependencies: dependencies.get(model_identifier, [])
GetUrlDependencies(deps, ident) ==
    IF ident \in DOMAIN deps THEN deps[ident] ELSE <<>>

\* What get_url_func is: None, or a function that returns a string, a list
\* of one URL, an empty list, or raises.
GetUrlFuncs == {"None", "str", "list", "empty", "raises"}

\* What the instance has as get_absolute_url: nothing, a method that returns
\* a path, or one that raises.
AbsoluteUrls == {"absent", "path", "raises"}

\* Faulty variant: get_absolute_url is asked first where the instance has it.
PreferAbsoluteUrl(func, gau, own, site) ==
    CASE gau = "path" ->
            [exc |-> "none", urls |-> <<BuildFullUrl(site, own)>>,
             called |-> <<"get_absolute_url">>]
      [] gau = "raises" -> [exc |-> "none", urls |-> <<>>, called |-> <<"get_absolute_url">>]
      [] func \in {"str", "list"} ->
            [exc |-> "none", urls |-> <<own>>, called |-> <<"get_url_func">>]
      [] func = "empty" -> [exc |-> "none", urls |-> <<>>, called |-> <<"get_url_func">>]
      [] func = "raises" ->
            [exc |-> "ResolverError", urls |-> <<>>, called |-> <<"get_url_func">>]
      [] OTHER -> [exc |-> "none", urls |-> <<>>, called |-> <<>>]

\* purge_model, "Get the instance's URL": the URLs so far, the exception that
\* leaves purge_model here, and the resolvers that were called.  With a
\* get_url_func, what it returns is taken as it is, a string as a list of
\* one; only without one, and if the instance has get_absolute_url, its path
\* is made a full URL, and its failure is logged and gives no URL.
OwnUrls(func, gau, own, site) ==
    CASE func \in {"str", "list"} ->
            [exc |-> "none", urls |-> <<own>>, called |-> <<"get_url_func">>]
      [] func = "empty" -> [exc |-> "none", urls |-> <<>>, called |-> <<"get_url_func">>]
      [] func = "raises" ->
            [exc |-> "ResolverError", urls |-> <<>>, called |-> <<"get_url_func">>]
      [] func = "None" /\ gau = "path" ->
            [exc |-> "none", urls |-> <<BuildFullUrl(site, own)>>,
             called |-> <<"get_absolute_url">>]
      [] func = "None" /\ gau = "raises" ->
            [exc |-> "none", urls |-> <<>>, called |-> <<"get_absolute_url">>]
      [] OTHER -> [exc |-> "none", urls |-> <<>>, called |-> <<>>]

\* purge_model, "Get dependency URLs"
DepUrls(ident, incl, c) ==
    IF incl
    THEN [k \in 1..Len(GetUrlDependencies(c.deps, ident)) |->
              BuildFullUrl(c.site, GetUrlDependencies(c.deps, ident)[k])]
    ELSE <<>>

\* Where purge_model is called from: directly, or by _purge_instance for the
\* post_save or the post_delete signal of a registered model.
Frames == {"purge_model", "save", "delete"}

\* Faulty variant: the handler catches the client's error only.
OnlyApiErrorCaught(e) == e = "CloudflareAPIError"

\* _purge_instance: except Exception
HandlerCaught(e) == e # "none"

\* What leaves the frame when purge_model ended with exception e.
Raised(frame, e) ==
    IF frame \in {"save", "delete"} /\ HandlerCaught(e) THEN "none" ELSE e

\* purge_model up to its call of purge_urls.  An exception of the custom
\* function ends it at once; with no URL collected it returns None; else it
\* goes on to self.purge_urls(urls).
PurgeModel(c, frame, ident, func, gau, own, incl) ==
    /\ th[c].pc = "idle"
    /\ mdl[c].pc \in {"none", "left"}
    /\ nTimers + nSync < MaxEvents
    /\ LET o == OwnUrls(func, gau, own, cfg.site)
           urls == o.urls \o DepUrls(ident, incl, cfg)
           m == [frame |-> frame, ident |-> ident, func |-> func, gau |-> gau, own |-> own,
                 incl |-> incl, called |-> o.called, handed |-> FALSE]
       IN mdl' = [mdl EXCEPT ![c] =
                    IF o.exc # "none"
                    THEN m @@ [pc |-> "left", urls |-> <<>>, exc |-> o.exc,
                               raised |-> Raised(frame, o.exc), ret |-> "none"]
                    ELSE IF urls = <<>>
                    THEN m @@ [pc |-> "left", urls |-> <<>>, exc |-> "none",
                               raised |-> "none", ret |-> "None"]
                    ELSE m @@ [pc |-> "handing", urls |-> urls, exc |-> "none",
                               raised |-> "none", ret |-> "none"]]
    /\ UNCHANGED <<core, workers, nEvery, cl, cfg, edge>>

\* purge_model: return self.purge_urls(urls), the background flag left to the
\* BACKGROUND_PURGE setting.
HandOver(c, setting) ==
    /\ mdl[c].pc = "handing"
    /\ PurgeUrls(c, mdl[c].urls, "None", setting)

\* purge_urls is through: purge_model returns what it returned or lets its
\* exception pass, and a signal handler logs the one or the other.
ModelLeave(c) ==
    /\ mdl[c].pc = "handing"
    /\ th[c].pc = "done"
    /\ mdl' = [mdl EXCEPT ![c] =
                 [@ EXCEPT !.pc = "left", !.handed = TRUE, !.exc = th[c].exc,
                           !.raised = Raised(mdl[c].frame, th[c].exc), !.ret = th[c].ret]]
    /\ th' = [th EXCEPT ![c] = Fresh("idle")]
    /\ UNCHANGED <<pending, lock, timerRef, nTimers, nSync, now, delay, batchSize,
                   winUrls, winOrder, winFirst, winLast, winCount, winOverlap, nDrains, dropped, anyUrl, burst,
                   workers, nEvery, cl, cfg, edge>>

\* Faulty variant: the failure is logged and None is returned.
SwallowEveryError(r, e) == [r EXCEPT !.pc = "every_done", !.ret = "None"]

\* _do_purge_everything when client.purge_everything raised: a
\* CloudflareAPIError is logged and re-raised, any other exception passes
\* through; purge_everything(background=False) hands it on to its caller.
OnEveryError(r, e) == [r EXCEPT !.pc = "every_done", !.exc = e]

\* Faulty variant: the purge of everything also drops the pending URLs and
\* cancels their timer.
PurgeEverythingFlushing(c, background, setting) ==
    /\ th[c].pc = "idle"
    /\ nEvery < MaxEvery
    /\ nEvery' = nEvery + 1
    /\ pending' = {}
    /\ timerRef' = NoThread
    /\ IF Resolve(background, setting)
       THEN /\ workers' = [workers EXCEPT ![nEvery + 1] = "incall"]
            /\ th' = [CancelTimer(th, timerRef) EXCEPT ![c] =
                        [Fresh("every_done") EXCEPT !.bg = TRUE, !.ret = "None"]]
       ELSE /\ th' = [CancelTimer(th, timerRef) EXCEPT ![c] = Fresh("every_incall")]
            /\ UNCHANGED workers
    /\ UNCHANGED <<lock, nTimers, nSync, now, delay, batchSize,
                   winUrls, winOrder, winFirst, winLast, winCount, winOverlap, nDrains, dropped, anyUrl, burst,
                   cl, mdl, cfg, edge>>

\* PurgeService.purge_everything(background): the background branch starts a
\* thread on _do_purge_everything, which calls the client, and returns None;
\* the synchronous branch calls _do_purge_everything itself.
PurgeEverything(c, background, setting) ==
    /\ th[c].pc = "idle"
    /\ nEvery < MaxEvery
    /\ nEvery' = nEvery + 1
    /\ IF Resolve(background, setting)
       THEN /\ workers' = [workers EXCEPT ![nEvery + 1] = "incall"]
            /\ th' = [th EXCEPT ![c] =
                        [Fresh("every_done") EXCEPT !.bg = TRUE, !.ret = "None"]]
       ELSE /\ th' = [th EXCEPT ![c] = Fresh("every_incall")]
            /\ UNCHANGED workers
    /\ UNCHANGED <<pending, lock, timerRef, nTimers, nSync, now, delay, batchSize,
                   winUrls, winOrder, winFirst, winLast, winCount, winOverlap, nDrains, dropped, anyUrl, burst,
                   cl, mdl, cfg, edge>>

\* _do_purge_everything in the caller's thread: client.purge_everything
\* returns, and its result is returned, or raises.
EveryReturn(c, resp) ==
    /\ c \in Callers
    /\ th[c].pc = "every_incall"
    /\ LET out == ClientCall("purge_everything", cfg.enabled, <<>>, Reply(resp)).out
       IN th' = [th EXCEPT ![c] =
                   IF out.exc = "none"
                   THEN [@ EXCEPT !.pc = "every_done", !.ret = "result"]
                   ELSE OnEveryError(@, out.exc)]
    /\ UNCHANGED <<pending, lock, timerRef, nTimers, nSync, now, delay, batchSize,
                   winUrls, winOrder, winFirst, winLast, winCount, winOverlap, nDrains, dropped, anyUrl, burst, ext, edge>>

\* _do_purge_everything in a thread of its own: client.purge_everything
\* returns and the thread ends, or raises and the exception ends the thread.
WorkerReturn(w, resp) ==
    /\ workers[w] = "incall"
    /\ LET out == ClientCall("purge_everything", cfg.enabled, <<>>, Reply(resp)).out
       IN workers' = [workers EXCEPT ![w] = IF out.exc = "none" THEN "ended" ELSE "died"]
    /\ UNCHANGED <<core, nEvery, cl, mdl, cfg, edge>>

\* The caller of purge_everything has its answer and may call again.
EveryLeave(c) ==
    /\ c \in Callers
    /\ th[c].pc = "every_done"
    /\ th' = [th EXCEPT ![c] = Fresh("idle")]
    /\ UNCHANGED <<pending, lock, timerRef, nTimers, nSync, now, delay, batchSize,
                   winUrls, winOrder, winFirst, winLast, winCount, winOverlap, nDrains, dropped, anyUrl, burst, ext, edge>>

\* Faulty variant: every connect adds the receiver once more.
ConnectAgain(receivers, sender) == Append(receivers, sender)

\* post_save.connect(_on_model_save, sender=model): a receiver already
\* connected for the sender is not connected a second time.  The receivers of
\* a signal are written as the list of the senders they are connected for.
Connect(receivers, sender) ==
    IF sender \in Range(receivers) THEN receivers ELSE Append(receivers, sender)

\* Faulty variant: the receivers stay connected.
NoDisconnect(receivers, sender) == receivers

\* post_save.disconnect(_on_model_save, sender=model)
Disconnect(receivers, sender) == SelectSeq(receivers, LAMBDA x : x # sender)

\* _model_url_funcs.pop(model, None)
Pop(funcs, m) == [x \in DOMAIN funcs \ {m} |-> funcs[x]]

\* is_model_registered
IsModelRegistered(m) == m \in sig.models

\* register_model: both branches of "if get_url_func" store the function as
\* given and the flag.
RegisterModel(m, func, incl) ==
    /\ sig.last[m].n < MaxRegs
    /\ sig' = [models |-> sig.models \cup {m},
               funcs |-> [x \in DOMAIN sig.funcs \cup {m} |->
                             IF x = m THEN [get_url_func |-> func, include_dependencies |-> incl]
                                      ELSE sig.funcs[x]],
               save |-> Connect(sig.save, m),
               delete |-> Connect(sig.delete, m),
               last |-> [sig.last EXCEPT ![m] = [op |-> "register", func |-> func,
                                                incl |-> incl, n |-> @.n + 1]],
               ev |-> NoEvent]
    /\ UNCHANGED <<core, ext, cmd, glob>>

\* unregister_model
UnregisterModel(m) ==
    /\ sig' = [models |-> sig.models \ {m},
               funcs |-> Pop(sig.funcs, m),
               save |-> Disconnect(sig.save, m),
               delete |-> Disconnect(sig.delete, m),
               last |-> [sig.last EXCEPT ![m] = [Unknown EXCEPT !.op = "unregister"]],
               ev |-> NoEvent]
    /\ UNCHANGED <<core, ext, cmd, glob>>

\* _purge_instance for one receiver: the configuration is looked up, with
\* the defaults of config.get for a sender without an entry, and purge_model
\* is called with it.
PurgeInstance(m) ==
    IF m \in DOMAIN sig.funcs
    THEN [model |-> m, get_url_func |-> sig.funcs[m].get_url_func,
          include_dependencies |-> sig.funcs[m].include_dependencies]
    ELSE [model |-> m, get_url_func |-> "None", include_dependencies |-> TRUE]

\* post_save or post_delete is sent for an instance of m: every receiver
\* connected for m runs, _on_model_save or _on_model_delete, and with it
\* _purge_instance.  The purge_model calls made are kept.
ModelEvent(kind, m) ==
    /\ sig' = [sig EXCEPT !.ev =
                 [kind |-> kind, model |-> m,
                  calls |-> LET rs == SelectSeq(IF kind = "save" THEN sig.save ELSE sig.delete,
                                                LAMBDA x : x = m)
                            IN [k \in 1..Len(rs) |-> PurgeInstance(rs[k])]]]
    /\ UNCHANGED <<core, ext, cmd, glob>>

\* The management commands.
Commands == {"cf_purge_all", "cf_purge_urls", "cf_verify_token"}

\* The client operation a command calls.
CommandOp(name) ==
    CASE name = "cf_purge_all" -> "purge_everything"
      [] name = "cf_purge_urls" -> "purge_urls"
      [] name = "cf_verify_token" -> "verify_token"

\* add_arguments: cf_purge_all and cf_purge_urls declare --dry-run,
\* cf_verify_token declares no argument at all.
DeclaresDryRun(name) == name \in {"cf_purge_all", "cf_purge_urls"}

\* The argument parser turns the command line down: an option that is not
\* declared, or cf_purge_urls without a URL (nargs="+").
UsageError(name, dryRun, urls) ==
    \/ dryRun /\ ~DeclaresDryRun(name)
    \/ name = "cf_purge_urls" /\ urls = <<>>

\* handle: if dry_run
DryRunTaken(name, dryRun) == dryRun /\ name \in {"cf_purge_all", "cf_purge_urls"}

\* handle of cf_verify_token: which setting it finds missing, if any.
Missing(name, tokenSet, zoneSet) ==
    IF name # "cf_verify_token" THEN "none"
    ELSE IF ~tokenSet THEN "CLOUDFLARE_API_TOKEN"
    ELSE IF ~zoneSet THEN "CLOUDFLARE_ZONE_ID"
    ELSE "none"

\* A command run from the command line: what it printed, the client
\* operations it called, the exception that ended it and its exit status.
\* An exception of the client is printed when it is a CloudflareAPIError and
\* leaves handle either way.
CommandOutcome(name, dryRun, urls, tokenSet, zoneSet, reply) ==
    LET args == IF name = "cf_purge_urls" THEN urls ELSE <<>>
        call == ClientCall(CommandOp(name), cfg.enabled, args, reply)
    IN IF UsageError(name, dryRun, urls)
       THEN [printed |-> <<>>, calls |-> <<>>, exc |-> "CommandError", exit |-> "error"]
       ELSE IF DryRunTaken(name, dryRun)
       THEN [printed |-> <<"DRY RUN">> \o args, calls |-> <<>>, exc |-> "none", exit |-> "ok"]
       ELSE IF Missing(name, tokenSet, zoneSet) # "none"
       THEN [printed |-> <<"not configured", Missing(name, tokenSet, zoneSet)>>,
             calls |-> <<>>, exc |-> "none", exit |-> "ok"]
       ELSE IF call.out.exc = "none"
       THEN [printed |-> <<"success">>, calls |-> <<CommandOp(name)>>, exc |-> "none",
             exit |-> "ok"]
       ELSE [printed |-> IF call.out.exc = "CloudflareAPIError" THEN <<"error">> ELSE <<>>,
             calls |-> <<CommandOp(name)>>, exc |-> call.out.exc, exit |-> "error"]

\* manage.py <name> [--dry-run] [urls]
RunCommand(name, dryRun, urls, tokenSet, zoneSet, reply) ==
    /\ name = "cf_purge_urls" \/ urls = <<>>
    /\ cmd' = [name |-> name, dryRun |-> dryRun, urls |-> urls, tokenSet |-> tokenSet,
               zoneSet |-> zoneSet, reply |-> reply]
              @@ CommandOutcome(name, dryRun, urls, tokenSet, zoneSet, reply)
    /\ UNCHANGED <<core, ext, sig, glob>>

\* The getter whose body the thread is in: get_client while inside
\* PurgeService.__init__.
Current(g) == IF g.inner THEN "get_client" ELSE g.fn

\* The module global a getter reads and writes.
Global(G, fn) == IF fn = "get_client" THEN G.client ELSE G.service

\* A thread calls get_purge_service() or get_client().
GetCall(t, fn) ==
    /\ glob.gt[t].pc = "idle"
    /\ glob.gt[t].n < MaxGets
    /\ glob' = [glob EXCEPT !.gt[t] = [Outside EXCEPT !.pc = "check", !.fn = fn,
                                                      !.n = glob.gt[t].n + 1]]
    /\ UNCHANGED <<core, ext, sig, cmd>>

\* "if _service is None" / "if _client is None".  A client is constructed
\* next; a service is too, and its __init__ first calls get_client().
IsNone(t) ==
    /\ glob.gt[t].pc = "check"
    /\ glob' = [glob EXCEPT !.gt[t] =
                  IF Global(glob, Current(glob.gt[t])) # 0
                  THEN [@ EXCEPT !.pc = "return"]
                  ELSE IF Current(glob.gt[t]) = "get_client"
                  THEN [@ EXCEPT !.pc = "assign"]
                  ELSE [@ EXCEPT !.pc = "check", !.inner = TRUE]]
    /\ UNCHANGED <<core, ext, sig, cmd>>

\* "_client = CloudflareClient()" / "_service = PurgeService()": the new
\* instance is bound to the global; a service holds the client its __init__
\* was given.
Assign(t) ==
    /\ glob.gt[t].pc = "assign"
    /\ glob' = IF Current(glob.gt[t]) = "get_client"
               THEN [glob EXCEPT !.nClient = @ + 1, !.client = glob.nClient + 1,
                                 !.gt[t] = [@ EXCEPT !.pc = "return"]]
               ELSE [glob EXCEPT !.nService = @ + 1, !.service = glob.nService + 1,
                                 !.holds = Append(@, glob.gt[t].cli),
                                 !.gt[t] = [@ EXCEPT !.pc = "return"]]
    /\ UNCHANGED <<core, ext, sig, cmd>>

\* "return _client" / "return _service": the global as it is now.  The
\* get_client() of PurgeService.__init__ gives self.client, and the service is
\* bound next; the outer call gives the caller its object.
GetReturn(t) ==
    /\ glob.gt[t].pc = "return"
    /\ glob' = IF glob.gt[t].inner
               THEN [glob EXCEPT !.gt[t] = [@ EXCEPT !.pc = "assign", !.inner = FALSE,
                                                     !.cli = glob.client]]
               ELSE [glob EXCEPT !.gt[t] = [@ EXCEPT !.pc = "idle",
                                                     !.got = Global(glob, glob.gt[t].fn)],
                                 !.returned[glob.gt[t].fn] =
                                     @ \cup {Global(glob, glob.gt[t].fn)}]
    /\ UNCHANGED <<core, ext, sig, cmd>>

\* The module-level instances, asked for by several threads.
InitGlobals == Init /\ delay = 0 /\ batchSize = 1 /\ cfg = DefaultCfg

NextGlobals ==
    \/ \E t \in Getters, fn \in GetFuncs : GetCall(t, fn)
    \/ \E t \in Getters : IsNone(t)
    \/ \E t \in Getters : Assign(t)
    \/ \E t \in Getters : GetReturn(t)

SpecGlobals == InitGlobals /\ [][NextGlobals]_vars

\* The steps of the threads.
Next ==
    \/ \E c \in Callers, urls \in UrlLists, background \in {"None", "True", "False"},
          setting \in BOOLEAN : PurgeUrls(c, urls, background, setting)
    \/ \E c \in Callers : Schedule(c)
    \/ \E t \in TimerIds : TimerFire(t)
    \/ \E t \in TimerIds : TimerAcquire(t)
    \/ \E t \in TimerIds : TimerSwap(t)
    \/ \E t \in Threads : CallStart(t)
    \/ \E t \in Threads, resp \in Responses : CallReturn(t, resp)
    \/ \E t \in Threads : Unwind(t)
    \/ \E c \in Callers : Return(c)

NextTimed ==
    \/ \E c \in Callers, urls \in ShortLists, background \in {"None", "True", "False"},
          setting \in BOOLEAN : PurgeUrls(c, urls, background, setting)
    \/ \E c \in Callers : Schedule(c)
    \/ \E t \in TimerIds : TimerFire(t)
    \/ \E t \in TimerIds : TimerAcquire(t)
    \/ \E t \in TimerIds : TimerSwap(t)
    \/ \E t \in Threads : CallStart(t)
    \/ \E t \in Threads, resp \in Responses : CallReturn(t, resp)
    \/ \E t \in Threads : Unwind(t)
    \/ \E c \in Callers : Return(c)
    \/ Tick

\* Time passes, with timers that are punctual and code that takes no time:
\* the clock moves on only when no timer is due, no callback is on its way to
\* the swap and no request is inside _schedule_background_purge.
TickPunctual ==
    /\ now < MaxTime
    /\ \A t \in TimerIds :
          /\ th[t].pc = "waiting" => now < th[t].armedAt + delay
          /\ th[t].pc \notin {"fired", "locked"}
    /\ \A c \in Callers : th[c].pc # "locked"
    /\ now' = now + 1
    /\ UNCHANGED <<pending, lock, timerRef, th, nTimers, nSync, delay, batchSize,
                   winUrls, winOrder, winFirst, winLast, winCount, winOverlap, nDrains, dropped, anyUrl, burst, ext, edge>>

NextPunctual ==
    \/ \E c \in Callers, urls \in ShortLists, background \in {"None", "True", "False"},
          setting \in BOOLEAN : PurgeUrls(c, urls, background, setting)
    \/ \E c \in Callers : Schedule(c)
    \/ \E t \in TimerIds : TimerFire(t)
    \/ \E t \in TimerIds : TimerAcquire(t)
    \/ \E t \in TimerIds : TimerSwap(t)
    \/ \E t \in Threads : CallStart(t)
    \/ \E t \in Threads, resp \in Responses : CallReturn(t, resp)
    \/ \E t \in Threads : Unwind(t)
    \/ \E c \in Callers : Return(c)
    \/ TickPunctual

\* PURGE_DELAY_SECONDS > 0 with punctual timers.
InitPunctual == Init /\ delay > 0 /\ batchSize = 1 /\ cfg = DefaultCfg

SpecPunctual == InitPunctual /\ [][NextPunctual]_vars

\* The coordinator with threads that go on: an armed timer fires in the end,
\* a callback gets the lock and does its swap, a dispatch makes its next call,
\* the client answers, an exception goes up, and a request inside
\* _schedule_background_purge leaves it.  Requests themselves need not come.
InitLive == Init /\ delay = 0 /\ batchSize = 1 /\ cfg = DefaultCfg

NextLive ==
    \/ \E c \in Callers, urls \in ShortLists, background \in {"None", "True", "False"},
          setting \in BOOLEAN : PurgeUrls(c, urls, background, setting)
    \/ \E c \in Callers : Schedule(c)
    \/ \E t \in TimerIds : TimerFire(t)
    \/ \E t \in TimerIds : TimerAcquire(t)
    \/ \E t \in TimerIds : TimerSwap(t)
    \/ \E t \in Threads : CallStart(t)
    \/ \E t \in Threads, resp \in Responses : CallReturn(t, resp)
    \/ \E t \in Threads : Unwind(t)
    \/ \E c \in Callers : Return(c)

Progress ==
    /\ \A c \in Callers : WF_vars(Schedule(c))
    /\ \A t \in TimerIds :
          /\ WF_vars(TimerFire(t))
          /\ WF_vars(TimerAcquire(t))
          /\ WF_vars(TimerSwap(t))
    /\ \A t \in Threads :
          /\ WF_vars(CallStart(t))
          /\ WF_vars(\E resp \in Responses : CallReturn(t, resp))
          /\ WF_vars(Unwind(t))

SpecLive == InitLive /\ [][NextLive]_vars /\ Progress

\* PURGE_DELAY_SECONDS = 0, the default: a timer may fire as soon as it is armed.
InitDefault == Init /\ delay = 0 /\ cfg = DefaultCfg

Spec == InitDefault /\ [][Next]_vars

\* PURGE_DELAY_SECONDS > 0, with the clock; the callers pass short lists.
InitTimed == Init /\ delay > 0 /\ cfg = DefaultCfg

SpecTimed == InitTimed /\ [][NextTimed]_vars

\* purge_urls and purge_everything side by side, the default settings.
NextEvery ==
    \/ \E c \in Callers, urls \in ShortLists, background \in {"None", "True", "False"},
          setting \in BOOLEAN : PurgeUrls(c, urls, background, setting)
    \/ \E c \in Callers : Schedule(c)
    \/ \E t \in TimerIds : TimerFire(t)
    \/ \E t \in TimerIds : TimerAcquire(t)
    \/ \E t \in TimerIds : TimerSwap(t)
    \/ \E t \in Threads : CallStart(t)
    \/ \E t \in Threads, resp \in Responses : CallReturn(t, resp)
    \/ \E t \in Threads : Unwind(t)
    \/ \E c \in Callers : Return(c)
    \/ \E c \in Callers, background \in {"None", "True", "False"},
          setting \in BOOLEAN : PurgeEverything(c, background, setting)
    \/ \E c \in Callers, resp \in Responses : EveryReturn(c, resp)
    \/ \E w \in WorkerIds, resp \in Responses : WorkerReturn(w, resp)
    \/ \E c \in Callers : EveryLeave(c)

\* The callers pass lists of one URL, so one batch size is enough.
InitEvery == InitDefault /\ batchSize = 1

SpecEvery == InitEvery /\ [][NextEvery]_vars

\* purge_model and the signal handlers above purge_urls, with SITE_URL and
\* URL_DEPENDENCIES of every kind.
InitModel == Init /\ delay = 0 /\ batchSize = MaxBatch /\ cfg.enabled

NextModel ==
    \/ \E c \in Callers, frame \in Frames, ident \in Idents, func \in GetUrlFuncs,
          gau \in AbsoluteUrls, own \in Paths, incl \in BOOLEAN :
             PurgeModel(c, frame, ident, func, gau, own, incl)
    \/ \E c \in Callers, setting \in BOOLEAN : HandOver(c, setting)
    \/ \E c \in Callers : Schedule(c)
    \/ \E t \in TimerIds : TimerFire(t)
    \/ \E t \in TimerIds : TimerAcquire(t)
    \/ \E t \in TimerIds : TimerSwap(t)
    \/ \E t \in Threads : CallStart(t)
    \/ \E t \in Threads, resp \in Responses : CallReturn(t, resp)
    \/ \E t \in Threads : Unwind(t)
    \/ \E c \in Callers : ModelLeave(c)

SpecModel == InitModel /\ [][NextModel]_vars

\* The registry of signals.py and the signals sent for the models.
InitSignals == Init /\ delay = 0 /\ batchSize = 1 /\ cfg = DefaultCfg

NextSignals ==
    \/ \E m \in Models, func \in UrlFuncs, incl \in BOOLEAN : RegisterModel(m, func, incl)
    \/ \E m \in Models : UnregisterModel(m)
    \/ \E kind \in {"save", "delete"}, m \in Models : ModelEvent(kind, m)

SpecSignals == InitSignals /\ [][NextSignals]_vars

\* The management commands, with ENABLED either way.
InitCli == Init /\ delay = 0 /\ batchSize = 1 /\ cfg.site = <<>> /\ cfg.deps = <<>>

NextCli ==
    \E name \in Commands, dryRun \in BOOLEAN, urls \in UNION {[1..n -> Urls] : n \in 0..MaxItems},
       tokenSet \in BOOLEAN, zoneSet \in BOOLEAN, reply \in Replies :
        RunCommand(name, dryRun, urls, tokenSet, zoneSet, reply)

SpecCli == InitCli /\ [][NextCli]_vars

\* The client on its own, with ENABLED either way.
InitClient ==
    Init /\ delay = 0 /\ batchSize = 1 /\ cfg.site = <<>> /\ cfg.deps = <<>>

NextClient ==
    \E op \in Ops, items \in ItemLists, reply \in Replies : ClientOp(op, items, reply)

SpecClient == InitClient /\ [][NextClient]_vars

\* ------------------------------------------------------------- the claims

RECURSIVE Concat(_)
Concat(ss) == IF ss = <<>> THEN <<>> ELSE Head(ss) \o Concat(Tail(ss))

Ceil(n, B) == (n + B - 1) \div B

Born == {t \in TimerIds : th[t].pc # "unborn"}
Waiting == {t \in TimerIds : th[t].pc = "waiting"}
Draining == {t \in TimerIds : th[t].pc \in {"loop", "incall", "raising"}}
Dispatching == {t \in Threads : th[t].pc \in {"loop", "incall", "raising"}}
LastTimer == NCallers + nTimers

\* C1: at any time at most one debounce timer is outstanding: armed, neither
\* cancelled nor fired.
C1_AtMostOneTimerOutstanding == Cardinality(Waiting) <= 1

\* C2: the URLs a timer-fired drain dispatches are exactly the union of the
\* URLs of the background requests merged since the previous swap, each once:
\* the pending set always is that union, the drain's list is an arrangement of
\* it without repeats, and a drain whose calls all succeed has sent every one.
C2_DrainIsWindowUnion ==
    /\ pending = winUrls
    /\ \A t \in Draining :
          /\ Range(th[t].urls) = th[t].want
          /\ Len(th[t].urls) = Cardinality(th[t].want)
          /\ Range(Concat(th[t].sent)) \subseteq th[t].want
          /\ (th[t].pc = "incall" /\ th[t].i + batchSize >= Len(th[t].urls))
                => Range(Concat(th[t].sent)) = th[t].want

\* C2 witness: a drain holds a window of two URLs merged by two requests while
\* a later request has already started the next window.
C2_Witness ==
    \E t \in Draining :
        /\ Cardinality(th[t].want) = 2
        /\ th[t].cnt = 2
        /\ pending # {}
        /\ pending # th[t].want

C4_OverlapOneDispatch ==
    /\ (nTimers = 2 /\ burst) => nDrains <= 1
    /\ \A t \in Draining :
          (th[t].cnt = 2 /\ th[t].ovl) =>
              /\ Range(th[t].urls) = th[t].want
              /\ Len(th[t].urls) = Cardinality(th[t].want)
              /\ (nTimers = 2 /\ nSync = 0) => nDrains = 1

\* C4 witness: requests such as {a} and {a, b}: a drain of two requests that
\* overlap carries two URLs.
C4_Witness ==
    \E t \in Draining :
        /\ th[t].cnt = 2
        /\ th[t].ovl
        /\ Len(th[t].urls) = 2
        /\ nTimers = 2
        /\ nDrains = 1
        /\ burst

\* C5: a background purge_urls returns None having made no client call, and no
\* drain hands a request's URLs to the client before PURGE_DELAY_SECONDS have
\* passed since that request.
C5_NoCallBeforeDelay ==
    /\ \A c \in Callers :
          (th[c].pc = "done" /\ th[c].bg) => (th[c].ret = "None" /\ th[c].sent = <<>>)
    /\ \A t \in TimerIds :
          th[t].pc = "incall" => now >= th[t].last + delay

\* C6: a dispatch of n URLs with batch size B >= 1 sends the consecutive slices
\* of the list in order, each of 1 to B URLs, and when every call succeeds it
\* has made exactly ceil(n / B) calls whose concatenation is the list.
C6_Batching ==
    \A t \in Threads :
        LET r == th[t]
            k == Len(r.sent)
            n == Len(r.urls)
        IN /\ \A j \in 1..k : Len(r.sent[j]) \in 1..batchSize
           /\ Concat(r.sent) = SubSeq(r.urls, 1, Min(n, k * batchSize))
           /\ k <= Ceil(n, batchSize)
           /\ Len(r.results) <= k
           /\ (r.ret = "success" \/ (r.pc = "incall" /\ Len(r.results) + 1 = Ceil(n, batchSize)))
                 => (k = Ceil(n, batchSize) /\ Concat(r.sent) = r.urls)

\* C6 witness: a synchronous dispatch that succeeded with two calls.
C6_Witness ==
    \E c \in Callers :
        /\ th[c].pc = "done"
        /\ th[c].ret = "success"
        /\ Len(th[c].sent) = 2
        /\ Len(th[c].results) = 2

\* C7: a failure of a timer-fired dispatch does not leave the timer's callback,
\* and the pending set still holds exactly what was requested since the swap.
C7_FailureStaysInCallback ==
    /\ \A t \in TimerIds : th[t].pc # "raising"
    /\ pending = winUrls

\* C8: the lock is held only inside the two critical sections, never by a
\* thread that is in a client call or between calls of a dispatch.
C8_NoCallUnderLock ==
    /\ lock # NoThread => th[lock].pc = "locked"
    /\ \A t \in Dispatching : lock # t

\* C8 witness: a caller is inside _schedule_background_purge's critical
\* section while a drain's client call is in flight.
C8_Witness ==
    \E t \in TimerIds, c \in Callers :
        /\ th[t].pc = "incall"
        /\ lock = c
        /\ th[c].pc = "locked"

\* C9: purge_urls with an empty list is a no-op: in background mode the pending
\* set and the timer are as before, in synchronous mode no client call is made.
C9_EmptyIsNoOp ==
    [][\A c \in Callers :
          /\ (th[c].pc = "locked" /\ th[c].urls = <<>> /\ th'[c].pc = "done")
                => (pending' = pending /\ timerRef' = timerRef /\ nTimers' = nTimers)
          /\ (th[c].pc = "idle" /\ th'[c].pc = "done" /\ ~th'[c].bg)
                => th'[c].sent = <<>>]_vars

\* C10: when the client call for a chunk of a synchronous dispatch fails, the
\* chunks before it have been sent and answered, no chunk after it is sent, and
\* the caller gets the failure and no result; a result is returned only when
\* every chunk was answered.
C10_FailFast ==
    \A c \in Callers :
        /\ (th[c].pc = "done" /\ ~th[c].bg /\ th[c].exc = "none") =>
              /\ th[c].ret = "success"
              /\ Len(th[c].results) = Ceil(Len(th[c].urls), batchSize)
        /\ th[c].exc # "none" =>
            /\ th[c].pc \in {"raising", "done"}
            /\ th[c].ret = "none"
            /\ Len(th[c].results) = Len(th[c].sent) - 1
            /\ th[c].i = Len(th[c].results) * batchSize
            /\ Concat(th[c].sent)
                   = SubSeq(th[c].urls, 1, Min(Len(th[c].urls), Len(th[c].sent) * batchSize))

\* C10 witness: the second of two chunks failed after the first went through.
C10_Witness ==
    \E c \in Callers :
        /\ th[c].pc = "done"
        /\ th[c].exc = "CloudflareAPIError"
        /\ Len(th[c].sent) = 2
        /\ Len(th[c].results) = 1

\* C11: a client failure reaches the caller on the synchronous paths only: a
\* synchronous purge_urls or purge_everything ends either with its result or
\* with the exception the client raised, a CloudflareAPIError as such; a
\* background purge_urls or purge_everything returns None and no exception,
\* whatever becomes of the client calls made for it.
C11_FailureOnlyOnSyncPaths ==
    \A c \in Callers :
        /\ th[c].bg =>
              /\ th[c].exc = "none"
              /\ th[c].pc \in {"done", "every_done"} => th[c].ret = "None"
        /\ (~th[c].bg /\ th[c].pc \in {"done", "every_done"}) =>
              \/ th[c].exc = "none" /\ th[c].ret \in {"success", "result"}
              \/ th[c].exc \in {"CloudflareAPIError", "JSONDecodeError"} /\ th[c].ret = "none"
        /\ th[c].pc = "raising" => th[c].exc # "none"

\* C11 witness: a synchronous purge_everything raised CloudflareAPIError to its
\* caller after a background one, whose thread the same failure ended, had
\* returned None.
C11_Witness ==
    \E c \in Callers, w \in WorkerIds :
        /\ th[c].pc = "every_done"
        /\ ~th[c].bg
        /\ th[c].exc = "CloudflareAPIError"
        /\ workers[w] = "died"

\* The client.purge_everything calls in flight, in callers and in threads.
InEvery ==
    Cardinality({c \in Callers : th[c].pc = "every_incall"})
        + Cardinality({w \in WorkerIds : workers[w] = "incall"})

\* The pending set, the timer handle, the lock and every timer are as before.
PendingAndTimersKept ==
    /\ pending' = pending
    /\ timerRef' = timerRef
    /\ lock' = lock
    /\ \A t \in TimerIds : th'[t] = th[t]

\* C23: a purge_everything call, synchronous or background, starts exactly one
\* client.purge_everything call, and no other step starts one; neither the
\* call nor the return of the client touches the pending set, the timer
\* handle or a timer, so pending URLs stay and their timer can still fire.
C23_EveryBypassesPending ==
    [][/\ nEvery' = nEvery + 1 => (InEvery' = InEvery + 1 /\ PendingAndTimersKept)
       /\ nEvery' = nEvery => InEvery' <= InEvery
       /\ InEvery' < InEvery => (InEvery' = InEvery - 1 /\ PendingAndTimersKept)]_vars

\* C23 witness: a background purge_everything has run to its end while a URL
\* is pending and its timer still waits.
C23_Witness ==
    /\ \E w \in WorkerIds : workers[w] = "ended"
    /\ pending # {}
    /\ timerRef # NoThread
    /\ th[timerRef].pc = "waiting"

\* C12: a synchronous purge_urls returns only when the whole batched dispatch
\* is through, and what it returns is the aggregate with success true and the
\* client's results, one per chunk, in the order of the chunks.
C12_SyncReturnsAggregate ==
    \A c \in Callers :
        (th[c].pc = "done" /\ ~th[c].bg /\ th[c].exc = "none") =>
            /\ th[c].ret = "success"
            /\ Concat(th[c].sent) = th[c].urls
            /\ Len(th[c].sent) = Ceil(Len(th[c].urls), batchSize)
            /\ th[c].results = [j \in 1..Len(th[c].sent) |-> j]

\* C12 witness: three URLs with batch size 2 came back as two results.
C12_Witness ==
    \E c \in Callers :
        /\ th[c].pc = "done"
        /\ ~th[c].bg
        /\ Len(th[c].urls) = 3
        /\ batchSize = 2
        /\ th[c].results = <<1, 2>>

\* A client operation has been called.
Called == cl.op # "none"

\* C13: with ENABLED false every client operation, whatever its input, makes
\* no network request and returns the success outcome with id "disabled".
C13_DisabledNoRequest ==
    (Called /\ ~cfg.enabled) =>
        /\ cl.requests = <<>>
        /\ cl.out.exc = "none"
        /\ cl.out.id = "disabled"

\* C14 as stated: purge_urls([]), purge_tags([]) and purge_prefixes([]) make no
\* network request and return the success outcome with id "empty".
C14_EmptyGivesEmptyId ==
    (Called /\ cl.op \in ListOps /\ cl.items = <<>>) =>
        /\ cl.requests = <<>>
        /\ cl.out.exc = "none"
        /\ cl.out.id = "empty"

\* C14 amended: purge_urls([]), purge_tags([]) and purge_prefixes([]) make no
\* network request and return a success outcome, whose id is "empty" when
\* ENABLED is true and "disabled" when it is false.
C14_EmptyShortCircuit ==
    (Called /\ cl.op \in ListOps /\ cl.items = <<>>) =>
        /\ cl.requests = <<>>
        /\ cl.out.exc = "none"
        /\ cl.out.id = IF cfg.enabled THEN "empty" ELSE "disabled"

\* C14 witness: purge_tags([]) with ENABLED true came back with id "empty"
\* although the provider would have refused the request.
C14_Witness ==
    /\ Called
    /\ cfg.enabled
    /\ cl.op = "purge_tags"
    /\ cl.items = <<>>
    /\ cl.reply.kind = "http_error"
    /\ cl.out.id = "empty"

\* C15: a list operation of the client given more items than the provider's
\* limit fails with InvalidInput and sends nothing, truncated or not.
C15_OverLimitRejected ==
    (Called /\ cfg.enabled /\ cl.op \in ListOps /\ Len(cl.items) > HardLimit) =>
        /\ cl.requests = <<>>
        /\ cl.out.exc = "InvalidInput"

\* C16: a request that failed (an HTTP error status, a transport failure, a
\* decoded body with success false, a body that is not JSON) is raised as
\* CloudflareAPIError, never returned as a success and never raised as
\* anything else.
C16_FailuresAreApiErrors ==
    (Called /\ cl.requests # <<>>) =>
        /\ cl.out.exc \in {"none", "CloudflareAPIError"}
        /\ cl.out.exc = "none" <=> cl.reply.kind = "ok"

\* C17: the CloudflareAPIError of a provider failure carries the decoded error
\* list as it came and a message with every sub-error's message in it; when
\* the failure body is not JSON it carries a list of exactly one element.
C17_ErrorCarriesProviderErrors ==
    (Called /\ cl.out.exc = "CloudflareAPIError"
            /\ cl.reply.kind \in {"success_false", "http_error"}) =>
        IF cl.reply.json
        THEN /\ cl.out.errors = cl.reply.errors
             /\ \A k \in 1..Len(cl.reply.errors) :
                    cl.reply.errors[k].message \in Range(cl.out.message)
        ELSE Len(cl.out.errors) = 1

\* SITE_URL without its trailing slashes: its longest prefix that is empty or
\* ends in another character.
SiteBase ==
    LET n == CHOOSE k \in 0..Len(cfg.site) :
                 /\ k = 0 \/ cfg.site[k] # "/"
                 /\ \A j \in (k + 1)..Len(cfg.site) : cfg.site[j] = "/"
    IN SubSeq(cfg.site, 1, n)

\* The dependency paths URL_DEPENDENCIES holds for an identifier.
PathsFor(ident) == IF ident \in DOMAIN cfg.deps THEN cfg.deps[ident] ELSE <<>>

\* The dependency URLs of an identifier: its paths behind the site.
DepsBehindSite(ident) == [k \in 1..Len(PathsFor(ident)) |-> SiteBase \o PathsFor(ident)[k]]

\* The callers inside or just out of a purge_model call.
InModel == {c \in Callers : mdl[c].pc \in {"handing", "left"}}

\* The list a caller has handed to purge_urls is the one purge_model built.
HandsOver(c, urls) ==
    /\ mdl[c].urls = urls
    /\ mdl[c].pc = "left" => mdl[c].handed
    /\ th[c].pc \in {"locked", "loop", "incall", "raising"} => th[c].urls = urls

\* C18: purge_model without a custom function, for an instance whose
\* get_absolute_url gives a path, hands purge_urls that path behind SITE_URL
\* and then, with include_dependencies, every dependency path of
\* '<app_label>.<model_name>' behind SITE_URL; without, the own URL alone.
C18_OwnAndDependencyUrls ==
    \A c \in InModel :
        (mdl[c].func = "None" /\ mdl[c].gau = "path") =>
            HandsOver(c, <<SiteBase \o mdl[c].own>>
                         \o (IF mdl[c].incl THEN DepsBehindSite(mdl[c].ident) ELSE <<>>))

\* C18 witness: with SITE_URL "s/" an instance with two dependency paths had
\* three URLs handed over, the last of them "s/".
C18_Witness ==
    \E c \in InModel :
        /\ mdl[c].func = "None"
        /\ mdl[c].gau = "path"
        /\ mdl[c].incl
        /\ cfg.site = <<"s", "/">>
        /\ th[c].pc = "locked"
        /\ Len(th[c].urls) = 3
        /\ th[c].urls[3] = <<"s", "/">>

\* C19: when resolving the own URL fails, in the custom function or in
\* get_absolute_url, the instance has no own URL and every dependency URL of
\* its type is handed to purge_urls all the same.
C19_ResolverFailureKeepsDependencies ==
    \A c \in InModel :
        ((mdl[c].func = "raises" \/ (mdl[c].func = "None" /\ mdl[c].gau = "raises"))
            /\ mdl[c].incl
            /\ PathsFor(mdl[c].ident) # <<>>) =>
                HandsOver(c, DepsBehindSite(mdl[c].ident))

\* C20: the save and delete handlers never raise: whatever exception ends
\* purge_model, from the resolver or from the purge, a CloudflareAPIError of a
\* synchronous dispatch included, stays in the handler.
C20_HandlersNeverRaise ==
    \A c \in Callers :
        (mdl[c].pc = "left" /\ mdl[c].frame \in {"save", "delete"}) =>
            mdl[c].raised = "none"

\* C20 witness: a delete handler whose synchronous dispatch failed with
\* CloudflareAPIError on its second chunk.
C20_Witness ==
    \E c \in Callers :
        /\ mdl[c].pc = "left"
        /\ mdl[c].frame = "delete"
        /\ mdl[c].exc = "CloudflareAPIError"
        /\ mdl[c].raised = "none"
        /\ Len(mdl[c].urls) = 3

\* C21: a save or a delete of an instance of a registered model calls
\* purge_model exactly once, with the URL function and the
\* include-dependencies flag of the latest register_model call for the model,
\* however many times the model was registered.
C21_OnePurgePerEvent ==
    (sig.ev.kind # "none" /\ sig.last[sig.ev.model].op = "register") =>
        sig.ev.calls = <<[model |-> sig.ev.model,
                          get_url_func |-> sig.last[sig.ev.model].func,
                          include_dependencies |-> sig.last[sig.ev.model].incl]>>

\* C21 witness: a model registered twice running was deleted, and purge_model
\* was called once, with the function g of the second registration.
C21_Witness ==
    /\ sig.ev.kind = "delete"
    /\ sig.last[sig.ev.model].n = 2
    /\ Len(sig.ev.calls) = 1
    /\ sig.ev.calls[1].get_url_func = "g"
    /\ ~sig.ev.calls[1].include_dependencies

\* C22: a model is reported registered exactly when the last register or
\* unregister call for it was a register; once unregistered it has no
\* configuration entry, and a save or delete of it calls purge_model no more.
C22_UnregisterStopsPurges ==
    /\ \A m \in Models :
          /\ IsModelRegistered(m) <=> sig.last[m].op = "register"
          /\ sig.last[m].op = "unregister" => m \notin DOMAIN sig.funcs
    /\ (sig.ev.kind # "none" /\ sig.last[sig.ev.model].op = "unregister") =>
          sig.ev.calls = <<>>

\* C22 witness: a model that was registered and then unregistered was saved
\* while another model was still registered.
C22_Witness ==
    /\ sig.ev.kind = "save"
    /\ sig.last[sig.ev.model].op = "unregister"
    /\ sig.ev.calls = <<>>
    /\ sig.models # {}

\* C24: each command takes a dry-run flag, and run with it the command prints
\* what it would do, calls neither the client nor the coordinator, and ends
\* well.
C24_DryRunCallsNothing ==
    (cmd.name # "none" /\ cmd.dryRun /\ (cmd.name = "cf_purge_urls" => cmd.urls # <<>>)) =>
        /\ cmd.exit = "ok"
        /\ cmd.printed # <<>>
        /\ cmd.printed[1] = "DRY RUN"
        /\ cmd.calls = <<>>

\* The timers whose callback is still to swap the pending set out.
ToFire == {t \in TimerIds : th[t].pc \in {"waiting", "fired"}}

\* C25: whenever the lock is free, a non-empty pending set has its timer, the
\* handle referring to a timer that is still to fire, and a handle of None
\* means an empty pending set and no timer outstanding.
C25_PendingAndTimerAgree ==
    lock = NoThread =>
        /\ pending # {} => (timerRef # NoThread /\ timerRef \in ToFire)
        /\ timerRef = NoThread => (pending = {} /\ ToFire = {})

\* C26: at most one drain dispatch is in flight at any time, and while one is
\* the coordinator is not idle for another to start.
C26_OneDrainInFlight == Cardinality(Draining) <= 1

\* The j-th slice of a list for batch size B.
Slice(urls, j, B) == SubSeq(urls, (j - 1) * B + 1, Min(j * B, Len(urls)))

\* C27: every chunk of a dispatch goes to the client at most once, a failed
\* one is not sent again, and the URLs of a failed drain do not come back
\* into the pending set: the set holds only what was requested since the swap.
C27_NoRetry ==
    /\ \A t \in Threads :
          /\ \A j \in 1..Len(th[t].sent) : th[t].sent[j] = Slice(th[t].urls, j, batchSize)
          /\ Len(th[t].sent) <= Ceil(Len(th[t].urls), batchSize)
          /\ th[t].exc # "none" => (th[t].pc \in {"raising", "done"}
                                       /\ Len(th[t].sent) = Len(th[t].results) + 1)
    /\ pending \subseteq winUrls

\* C27 witness: a drain of more than one chunk has failed on its first chunk;
\* that chunk went out once, the rest not at all, and nothing is pending.
C27_Witness ==
    \E t \in TimerIds :
        /\ th[t].pc = "raising"
        /\ Len(th[t].urls) > batchSize
        /\ Len(th[t].sent) = 1
        /\ th[t].results = <<>>
        /\ pending = {}

\* C28: a drain dispatches its URLs in the order in which they were first
\* added to the pending set.
C28_DrainKeepsArrivalOrder ==
    \A t \in Draining : th[t].urls = th[t].first

\* C29: the list purge_model hands to purge_urls holds each URL at most once.
C29_HandedListHasNoRepeats ==
    \A c \in InModel :
        \A a, b \in 1..Len(mdl[c].urls) : mdl[c].urls[a] = mdl[c].urls[b] => a = b

\* C30: with a get_url_func only it is called, and what it returns is the
\* instance's own URLs, a string as one URL; get_absolute_url is called only
\* without one; and when there is no own URL and no dependency URL,
\* purge_model returns None and purge_urls is not called.
C30_ResolverPrecedence ==
    \A c \in InModel :
        /\ mdl[c].func # "None" => mdl[c].called = <<"get_url_func">>
        /\ mdl[c].func \in {"str", "list"} =>
              HandsOver(c, <<mdl[c].own>>
                           \o (IF mdl[c].incl THEN DepsBehindSite(mdl[c].ident) ELSE <<>>))
        /\ mdl[c].func = "None" =>
              mdl[c].called = IF mdl[c].gau = "absent" THEN <<>> ELSE <<"get_absolute_url">>
        /\ ((mdl[c].func = "empty" \/ (mdl[c].func = "None" /\ mdl[c].gau # "path"))
                /\ (mdl[c].incl => PathsFor(mdl[c].ident) = <<>>)) =>
              /\ mdl[c].pc = "left"
              /\ mdl[c].ret = "None"
              /\ ~mdl[c].handed
              /\ th[c].pc = "idle"

\* C30 witness: an instance that has get_absolute_url is purged with a
\* get_url_func that returns a string; with SITE_URL "s" the one own URL
\* handed over is that string, not the path behind the site.
C30_Witness ==
    \E c \in InModel :
        /\ mdl[c].func = "str"
        /\ mdl[c].gau = "path"
        /\ cfg.site = <<"s">>
        /\ mdl[c].pc = "handing"
        /\ th[c].pc = "locked"
        /\ th[c].urls[1] = mdl[c].own

\* A step of a caller inside a synchronous purge_urls: its entry, a client
\* call, the client's answer, the exception going up, or its return.
SyncStep(c) == th'[c] # th[c] /\ ~th[c].bg /\ ~th'[c].bg

\* C34: no step of a synchronous purge_urls touches the pending set, the
\* timer handle, the lock or a timer, and the list it dispatches is the list
\* it was given, from its entry to its end.
C34_SyncLeavesPendingAlone ==
    [][\A c \in Callers :
          SyncStep(c) =>
              /\ PendingAndTimersKept
              /\ th[c].pc = "idle" => (th'[c].urls = th'[c].arg /\ th'[c].sent = <<>>)
              /\ (th[c].pc # "idle" /\ th'[c].pc # "idle") =>
                    (th'[c].urls = th[c].urls /\ th'[c].arg = th[c].arg)]_vars

\* C34 witness: a synchronous call is inside the client while a URL is pending
\* and its timer waits.
C34_Witness ==
    \E c \in Callers :
        /\ th[c].pc = "incall"
        /\ ~th[c].bg
        /\ pending # {}
        /\ timerRef # NoThread
        /\ th[timerRef].pc = "waiting"

\* C33: get_purge_service() and get_client() each create at most one instance,
\* and every call of either returns the same object, also when the first
\* calls come from several threads at once.
C33_OneInstanceEach ==
    /\ glob.nService <= 1
    /\ glob.nClient <= 1
    /\ \A fn \in GetFuncs : Cardinality(glob.returned[fn]) <= 1

\* C31: the wait of a pending URL is bounded whatever requests follow: with
\* punctual timers a URL is swapped out for its drain no later than
\* PURGE_DELAY_SECONDS after the first request of its window.
C31_DrainWithinDelay ==
    (pending # {} /\ winFirst >= 0) => now <= winFirst + delay

\* A drain is in client.purge_urls with a slice that holds the URL.
SentByDrain(u) ==
    \E t \in TimerIds :
        th[t].pc = "incall" /\ u \in Range(th[t].sent[Len(th[t].sent)])

\* Pending set empty, no timer handle, no timer armed or running.
Idle ==
    /\ pending = {}
    /\ timerRef = NoThread
    /\ \A t \in TimerIds : th[t].pc \in {"unborn", "cancelled", "done"}

\* C32 as stated: every URL in the pending set is in the end passed to
\* client.purge_urls by a drain, and the coordinator comes to rest with the
\* pending set empty and no timer.
C32_EveryUrlReachesClient ==
    /\ \A u \in Urls : (u \in pending) ~> SentByDrain(u)
    /\ <>[]Idle

\* C32: every URL in the pending set is in the end passed to
\* client.purge_urls by a drain unless an earlier slice of that drain failed,
\* and the coordinator comes to rest with the pending set empty and no timer.
C32_EveryUrlReachesClientOrIsDropped ==
    /\ \A u \in Urls : (u \in pending) ~> (SentByDrain(u) \/ u \in dropped)
    /\ <>[]Idle

\* C32 witness: a drain of two URLs failed on its first slice and left the
\* other unsent, and the coordinator is at rest.
C32_Witness ==
    /\ Idle
    /\ dropped # {}
    /\ nDrains = 1
    /\ nTimers = 2

====
